---- MODULE Spec2Model ----
(***************************************************************************)
(* RiftScout: the analysis / insight pipeline over a table of per-player   *)
(* match observations (src/main.py and src/src/analysis, src/src/insights).*)
(*                                                                         *)
(* The table (a pandas DataFrame in the source) is the sequence df of rows *)
(* together with the set of column names it carries.  Every analyzer is an *)
(* action that reads df and stores what the function returns.              *)
(*                                                                         *)
(* Numbers: a pandas mean is kept as the exact fraction sum/count (a       *)
(* record [num, den]); den = 0 is NaN, the mean of no rows.  Thresholds    *)
(* written as decimal literals in the source are the fractions they        *)
(* denote.  Comparisons are made by cross-multiplication; a comparison     *)
(* with NaN is false, as in IEEE arithmetic.                               *)
(***************************************************************************)
EXTENDS Integers, Sequences, FiniteSets, TLC

VARIABLES df, columns, status, roles_arg,
          role_tendencies, team_tendencies, compositions, insights

vars == <<df, columns, status, roles_arg,
          role_tendencies, team_tendencies, compositions, insights>>

(***************************************************************************)
(* Bounds of the model                                                     *)
(***************************************************************************)
\* rows of a table whose objective / duration / win columns vary
MaxRows == 3
\* rows of a table whose first_dragon / duration / win columns vary
MaxDragonRows == 5
\* rows of a table whose role / champion / win columns vary
MaxPlayerRows == 4
\* games of one champion in one role (10 games reach a win rate of 0.7)
MaxGames == 10
\* rows of a table whose match / team / champion columns vary
MaxCompRows == 4
\* rows of one team-game whose champion column varies
MaxPicks == 4
\* team-games of one row each
MaxTeamGames == 7
\* rows of a table some of whose columns are absent
MaxColumnRows == 2
\* columns absent from such a table
MaxDropped == 1
\* rows of a table of two team-games of several rows each
MaxStatRows == 4

(***************************************************************************)
(* The table                                                               *)
(***************************************************************************)
AllColumns == {"match_id", "team_id", "role", "champion", "win",
               "game_duration", "first_dragon", "first_tower"}

Analyzers == {"player", "team", "comps", "insights"}

\* seconds: rows below it are early games, rows at or above it late games
EarlyLateSplit == 1800

MkRow(m, t, r, c, w, d, fd, ft) ==
    [match_id |-> m, team_id |-> t, role |-> r, champion |-> c, win |-> w,
     game_duration |-> d, first_dragon |-> fd, first_tower |-> ft]

\* the durations tried: one second below the split, and the split itself
Durations == {EarlyLateSplit - 1, EarlyLateSplit}

\* rows that differ in the team-level columns only
TeamRows ==
    { MkRow(1, "BLUE_TEAM", "TOP", "Garen", w, d, fd, ft) :
        w \in {0, 1}, d \in Durations, fd \in {0, 1}, ft \in {0, 1} }

\* rows that differ in first_dragon, win and game_duration only
DragonRows == { r \in TeamRows : r.first_tower = 1 }

\* rows that differ in role, champion and win only
PlayerRows ==
    { MkRow(1, "BLUE_TEAM", r, c, w, EarlyLateSplit, 1, 1) :
        r \in {"TOP", "MID"}, c \in {"Garen", "Darius"}, w \in {0, 1} }

\* rows of one champion in one role, won or lost
GameRows == { r \in PlayerRows : r.role = "TOP" /\ r.champion = "Garen" }

\* rows that differ in match, team and champion only: both teams of match 1
\* and one team of match 2
CompRows ==
    { MkRow(g[1], g[2], "TOP", c, 1, EarlyLateSplit, 1, 1) :
        g \in {<<1, "BLUE_TEAM">>, <<1, "RED_TEAM">>, <<2, "BLUE_TEAM">>},
        c \in {"Garen", "Darius"} }

\* rows of one team-game: a champion of each archetype, and an untagged one
PickRows ==
    { MkRow(1, "BLUE_TEAM", "TOP", c, 1, EarlyLateSplit, 1, 1) :
        c \in {"Garen", "Kayle", "Lee Sin", "Lulu", "Malphite"} }

\* the champion names the tables use, in Python's string order
Alphabet == <<"Darius", "Garen", "Kayle", "Lee Sin", "Lulu", "Malphite">>

\* the rows that may follow d in a table of one-row team-games: the next
\* match, fielding a champion already seen or the first unseen one of Alphabet
TeamGameRows(d) ==
    LET seen == { d[i].champion : i \in DOMAIN d }
        upto == IF Cardinality(seen) < Len(Alphabet)
                THEN Cardinality(seen) + 1 ELSE Len(Alphabet)
    IN  { MkRow(Len(d) + 1, "BLUE_TEAM", "TOP", Alphabet[j], 1,
                EarlyLateSplit, 1, 1) : j \in 1..upto }

\* the rows that may follow d in a table of two team-games: a row of either
\* match whose first_dragon and first_tower are those of the match's rows
\* already in d (the parser copies the team's flags into each of its
\* player rows); win and game_duration are free
StatRows(d) ==
    { r \in { MkRow(m, "BLUE_TEAM", "TOP", "Garen", w, dur, fd, ft) :
                m \in {1, 2}, w \in {0, 1}, dur \in Durations,
                fd \in {0, 1}, ft \in {0, 1} } :
        \A i \in DOMAIN d :
            d[i].match_id = r.match_id =>
                /\ d[i].first_dragon = r.first_dragon
                /\ d[i].first_tower = r.first_tower }

\* rows of one champion in one role that differ in win and game_duration
ColumnRows ==
    { MkRow(1, "BLUE_TEAM", "TOP", "Garen", w, d, 1, 1) :
        w \in {0, 1}, d \in Durations }

\* the column sets tried: the full table, and the table without up to
\* MaxDropped of its columns
ColumnSets ==
    { AllColumns \ D : D \in { S \in SUBSET AllColumns :
                                  Cardinality(S) <= MaxDropped } }

\* the roles argument: None, or a list of role names (read as a set by isin)
NoRoles == [given |-> FALSE, roles |-> {}]
RoleLists == { [given |-> TRUE, roles |-> S] : S \in SUBSET {"TOP", "MID", "JUNGLE"} }

(***************************************************************************)
(* pandas / Python helpers                                                 *)
(***************************************************************************)
RECURSIVE SumSeq(_)
SumSeq(s) == IF s = <<>> THEN 0 ELSE Head(s) + SumSeq(Tail(s))

\* df[col] as a sequence of values
Column(d, col) == [i \in 1..Len(d) |-> d[i][col]]

\* Series.mean(): sum / count, NaN (den = 0) for an empty series
Mean(s) == [num |-> SumSeq(s), den |-> Len(s)]

Frac(n, d) == [num |-> n, den |-> d]

IsNaN(a) == a.den = 0

\* float comparisons; any comparison with NaN is False
Lt(a, b) == ~IsNaN(a) /\ ~IsNaN(b) /\ a.num * b.den < b.num * a.den
Le(a, b) == ~IsNaN(a) /\ ~IsNaN(b) /\ a.num * b.den <= b.num * a.den
Gt(a, b) == Lt(b, a)
Ge(a, b) == Le(b, a)

\* float addition (NaN propagates)
Add(a, b) == IF IsNaN(a) \/ IsNaN(b) THEN Frac(0, 0)
             ELSE Frac(a.num * b.den + b.num * a.den, a.den * b.den)

\* equality of two rates as numbers (NaN equals nothing)
SameRate(a, b) == ~IsNaN(a) /\ ~IsNaN(b) /\ a.num * b.den = b.num * a.den

\* f"{x:.2%}": the rate in hundredths of a percent, rounded half to even
\* ("nan%" for NaN)
Pct(a) ==
    IF IsNaN(a) THEN [nan |-> TRUE, bp |-> 0]
    ELSE LET n == a.num * 10000
             q == n \div a.den
             r == n % a.den
         IN  [nan |-> FALSE,
              bp  |-> IF 2 * r > a.den \/ (2 * r = a.den /\ q % 2 = 1)
                      THEN q + 1 ELSE q]

\* df[df['game_duration'] < 1800] and df[df['game_duration'] >= 1800]
IsEarly(row) == row.game_duration < EarlyLateSplit
IsLate(row) == row.game_duration >= EarlyLateSplit
EarlyRows(d) == SelectSeq(d, IsEarly)
LateRows(d) == SelectSeq(d, IsLate)

\* df[mask]['win'].mean() if not df[mask].empty else 0.0
PartitionWinRate(part) ==
    IF part = <<>> THEN Frac(0, 1) ELSE Mean(Column(part, "win"))

(***************************************************************************)
(* analyze_team_tendencies                                                 *)
(***************************************************************************)
TeamRequired == {"first_dragon", "first_tower", "game_duration", "win"}

\* mutant: a tie between the two win rates reported as "early"
WinTendencyTieEarly(early_win_rate, late_win_rate) ==
    IF Ge(early_win_rate, late_win_rate) THEN "early" ELSE "late"

WinTendency(early_win_rate, late_win_rate) ==
    IF Gt(early_win_rate, late_win_rate) THEN "early" ELSE "late"

\* mutant: the first-tower rate read from the first_dragon column
TeamTendenciesDragonTwice(d) ==
    LET early_win_rate == PartitionWinRate(EarlyRows(d))
        late_win_rate  == PartitionWinRate(LateRows(d))
    IN  [first_dragon_rate   |-> Mean(Column(d, "first_dragon")),
         first_tower_rate    |-> Mean(Column(d, "first_dragon")),
         early_game_win_rate |-> early_win_rate,
         late_game_win_rate  |-> late_win_rate,
         win_tendency        |-> WinTendency(early_win_rate, late_win_rate)]

TeamTendencies(d) ==
    LET early_win_rate == PartitionWinRate(EarlyRows(d))
        late_win_rate  == PartitionWinRate(LateRows(d))
    IN  [first_dragon_rate   |-> Mean(Column(d, "first_dragon")),
         first_tower_rate    |-> Mean(Column(d, "first_tower")),
         early_game_win_rate |-> early_win_rate,
         late_game_win_rate  |-> late_win_rate,
         win_tendency        |-> WinTendency(early_win_rate, late_win_rate)]

\* whether analyze_team_tendencies reads a column the table lacks: the two
\* objective columns and game_duration are read for every table, win only
\* for a partition that has rows
TeamTendenciesRaises(d, cols) ==
    \/ "first_dragon" \notin cols
    \/ "first_tower" \notin cols
    \/ "game_duration" \notin cols
    \/ /\ "win" \notin cols
       /\ (EarlyRows(d) # <<>> \/ LateRows(d) # <<>>)

NoTeamTendencies ==
    [first_dragon_rate |-> Frac(0, 0), first_tower_rate |-> Frac(0, 0),
     early_game_win_rate |-> Frac(0, 0), late_game_win_rate |-> Frac(0, 0),
     win_tendency |-> ""]

(***************************************************************************)
(* analyze_player_tendencies                                               *)
(***************************************************************************)
\* champions with fewer games in a role are ignored
MinGames == 2

HighGames       == 3
MediumGames     == 2
HighWinRate     == Frac(7, 10)      \* 0.7
HighLossRate    == Frac(3, 10)      \* 0.3
MediumWinRate   == Frac(3, 5)       \* 0.6
MediumLossRate  == Frac(2, 5)       \* 0.4

\* "if roles:" -- None and the empty list are both falsy
Truthy(ra) == ra.given /\ ra.roles # {}

\* df[df['role'].isin(roles)]
FilterRoles(d, ra) ==
    IF Truthy(ra) THEN SelectSeq(d, LAMBDA row : row.role \in ra.roles) ELSE d

\* the group of one role in df.groupby('role')
RoleGroup(d, role) == SelectSeq(d, LAMBDA row : row.role = role)

ChampionRows(role_df, champ) ==
    SelectSeq(role_df, LAMBDA row : row.champion = champ)

\* role_df['champion'].value_counts(), as champion -> count
ChampionCounts(role_df) ==
    [c \in { role_df[i].champion : i \in DOMAIN role_df } |->
        Len(ChampionRows(role_df, c))]

\* mutant: the small-sample floor dropped (every champion kept)
FilteredChampionsNoFloor(role_df) == DOMAIN ChampionCounts(role_df)

\* champion_counts[champion_counts >= 2]
FilteredChampions(role_df) ==
    { c \in DOMAIN ChampionCounts(role_df) :
        ChampionCounts(role_df)[c] >= MinGames }

\* filtered_counts.idxmax(): the first label of the largest count in the
\* order value_counts left.  value_counts sorts by count with the default
\* (unstable) sort, so among champions tied for the largest count the
\* one that comes first is not fixed by the code: every one of them is a
\* possible answer.
MostPlayedCandidates(role_df) ==
    LET counts == ChampionCounts(role_df)
        kept   == FilteredChampions(role_df)
    IN  { c \in kept : \A o \in kept : counts[o] <= counts[c] }

\* mutant: the thresholds of both tiers read as strict inequalities
PriorityStrict(games_played, win_rate) ==
    IF games_played >= HighGames
       /\ (Gt(win_rate, HighWinRate) \/ Lt(win_rate, HighLossRate))
    THEN "HIGH"
    ELSE IF games_played >= MediumGames
            /\ (Gt(win_rate, MediumWinRate) \/ Lt(win_rate, MediumLossRate))
    THEN "MEDIUM"
    ELSE "LOW"

\* mutant: the medium tier asking for three games like the high tier
PriorityMediumNeedsThree(games_played, win_rate) ==
    IF games_played >= HighGames
       /\ (Ge(win_rate, HighWinRate) \/ Le(win_rate, HighLossRate))
    THEN "HIGH"
    ELSE IF games_played >= HighGames
            /\ (Ge(win_rate, MediumWinRate) \/ Le(win_rate, MediumLossRate))
    THEN "MEDIUM"
    ELSE "LOW"

Priority(games_played, win_rate) ==
    IF games_played >= HighGames
       /\ (Ge(win_rate, HighWinRate) \/ Le(win_rate, HighLossRate))
    THEN "HIGH"
    ELSE IF games_played >= MediumGames
            /\ (Ge(win_rate, MediumWinRate) \/ Le(win_rate, MediumLossRate))
    THEN "MEDIUM"
    ELSE "LOW"

\* mutant: the action thresholds read as strict inequalities
ActionStrict(win_rate) ==
    IF Gt(win_rate, MediumWinRate) THEN "DENY COMFORT PICK"
    ELSE IF Lt(win_rate, MediumLossRate) THEN "FORCE LOSING MATCHUP"
    ELSE "IGNORE AND PLAY CROSS-MAP"

Action(win_rate) ==
    IF Ge(win_rate, MediumWinRate) THEN "DENY COMFORT PICK"
    ELSE IF Le(win_rate, MediumLossRate) THEN "FORCE LOSING MATCHUP"
    ELSE "IGNORE AND PLAY CROSS-MAP"

\* mutant: the win rate taken over every row of the role
RoleTendencyRoleWinRate(role_df, champ) ==
    LET games_played == ChampionCounts(role_df)[champ]
        win_rate     == Mean(Column(role_df, "win"))
    IN  [most_played_champion |-> champ,
         win_rate |-> win_rate,
         count    |-> games_played,
         priority |-> Priority(games_played, win_rate),
         action   |-> Action(win_rate)]

RoleTendency(role_df, champ) ==
    LET champion_df  == ChampionRows(role_df, champ)
        games_played == ChampionCounts(role_df)[champ]
        win_rate     == Mean(Column(champion_df, "win"))
    IN  [most_played_champion |-> champ,
         win_rate |-> win_rate,
         count    |-> games_played,
         priority |-> Priority(games_played, win_rate),
         action   |-> Action(win_rate)]

\* every mapping analyze_player_tendencies can return for the table
PlayerTendencies(d, cols, ra) ==
    IF ~({"role", "champion"} \subseteq cols) THEN { <<>> }
    ELSE LET fdf      == FilterRoles(d, ra)
             roles    == { fdf[i].role : i \in DOMAIN fdf }
             reported == { r \in roles :
                             FilteredChampions(RoleGroup(fdf, r)) # {} }
             picks    == { f \in [reported -> { fdf[i].champion : i \in DOMAIN fdf }] :
                             \A r \in reported :
                                f[r] \in MostPlayedCandidates(RoleGroup(fdf, r)) }
         IN  { [r \in reported |-> RoleTendency(RoleGroup(fdf, r), f[r])] :
                 f \in picks }

(***************************************************************************)
(* analyze_compositions                                                    *)
(***************************************************************************)
\* comp_counts.head(5)
TopN == 5
\* an archetype needs this many champions to name the composition
MinTagged == 2

\* champion_tags
SkirmishChampions ==
    {"Lee Sin", "Renekton", "LeBlanc", "Xin Zhao", "Elise", "Lucian",
     "Nidalee", "Kindred", "Sylas", "Jayce", "Wukong", "Taliyah"}
ProtectChampions ==
    {"Lulu", "Janna", "Braum", "Kog'Maw", "Vayne", "Tahm Kench",
     "Milio", "Yuumi", "Zilean", "Rakan", "Karma"}
EngageChampions ==
    {"Malphite", "Amumu", "Leona", "Nautilus", "Jarvan IV", "Ornn", "Galio",
     "Vi", "Sejuani", "Sion", "K'Sante", "Alistar", "Maokai"}
ScalingChampions ==
    {"Kayle", "Kassadin", "Jinx", "Ryze", "Sivir", "Viktor",
     "Smolder", "Azir", "Caitlyn", "Senna", "Vladimir"}

\* champion_tags.get(champ): "" stands for None
ChampionTag(champ) ==
    IF champ \in SkirmishChampions THEN "skirmish"
    ELSE IF champ \in ProtectChampions THEN "protect"
    ELSE IF champ \in EngageChampions THEN "engage"
    ELSE IF champ \in ScalingChampions THEN "scaling"
    ELSE ""

\* the keys of counts, in the order the dict is written
TagOrder == <<"skirmish", "protect", "engage", "scaling">>

\* position of a name in Python's string order
Rank(champ) == CHOOSE j \in DOMAIN Alphabet : Alphabet[j] = champ

\* mutant: the champions kept in row order
SortedChampionsUnsorted(champs) == champs

\* tuple(sorted(x))
SortedChampions(champs) ==
    SortSeq(champs, LAMBDA a, b : Rank(a) < Rank(b))

\* the keys of df.groupby(['match_id', 'team_id'])
GroupKeys(d) == { <<d[i].match_id, d[i].team_id>> : i \in DOMAIN d }

\* the composition of one (match, team) group
GroupComposition(d, key) ==
    SortedChampions(Column(
        SelectSeq(d, LAMBDA row : <<row.match_id, row.team_id>> = key),
        "champion"))

\* compositions['composition'].value_counts(), as composition -> count
CompositionCounts(d) ==
    LET keys   == GroupKeys(d)
        compOf == [k \in keys |-> GroupComposition(d, k)]
    IN  [c \in { compOf[k] : k \in keys } |->
            Cardinality({ k \in keys : compOf[k] = c })]

\* mutant: the compositions left in an arbitrary order, not ranked by count
RECURSIVE RankingsUnsorted(_, _)
RankingsUnsorted(counts, left) ==
    IF left = {} THEN { <<>> }
    ELSE UNION { { <<c>> \o rest : rest \in RankingsUnsorted(counts, left \ {c}) } :
                   c \in left }

\* mutant: the compositions ranked by ascending count
RECURSIVE RankingsAscending(_, _)
RankingsAscending(counts, left) ==
    IF left = {} THEN { <<>> }
    ELSE UNION { { <<c>> \o rest : rest \in RankingsAscending(counts, left \ {c}) } :
                   c \in { x \in left : \A y \in left : counts[x] <= counts[y] } }

\* the orders value_counts can leave the compositions of left in: by
\* descending count; the default sort is not stable, so compositions of
\* equal count may come in any order
RECURSIVE Rankings(_, _)
Rankings(counts, left) ==
    IF left = {} THEN { <<>> }
    ELSE UNION { { <<c>> \o rest : rest \in Rankings(counts, left \ {c}) } :
                   c \in { x \in left : \A y \in left : counts[y] <= counts[x] } }

\* s.head(n)
HeadOf(s, n) == IF Len(s) <= n THEN s ELSE SubSeq(s, 1, n)

TagCount(comp, tag) ==
    Cardinality({ i \in DOMAIN comp : ChampionTag(comp[i]) = tag })

\* mutant: among archetypes of equal count the last one of the dict wins
PrimaryStyleLastWins(comp) ==
    LET best == CHOOSE j \in DOMAIN TagOrder :
                  /\ \A k \in DOMAIN TagOrder :
                        TagCount(comp, TagOrder[k]) <= TagCount(comp, TagOrder[j])
                  /\ \A k \in DOMAIN TagOrder :
                        k > j => TagCount(comp, TagOrder[k]) < TagCount(comp, TagOrder[j])
    IN  IF TagCount(comp, TagOrder[best]) < MinTagged THEN "standard"
        ELSE TagOrder[best]

\* max(counts, key=counts.get): the first key of the largest count;
\* 'standard' when that count is below 2
PrimaryStyle(comp) ==
    LET best == CHOOSE j \in DOMAIN TagOrder :
                  /\ \A k \in DOMAIN TagOrder :
                        TagCount(comp, TagOrder[k]) <= TagCount(comp, TagOrder[j])
                  /\ \A k \in DOMAIN TagOrder :
                        k < j => TagCount(comp, TagOrder[k]) < TagCount(comp, TagOrder[j])
    IN  IF TagCount(comp, TagOrder[best]) < MinTagged THEN "standard"
        ELSE TagOrder[best]

\* archetypes
Archetype(style) ==
    CASE style = "skirmish" ->
           [category |-> "EARLY SKIRMISH",
            win_condition |-> "CRUSH LANES EARLY. INVADE AND SNOWBALL TEMPO.",
            break_point |-> "FALLS OFF IF GAME STALLS PAST 25 MINS."]
      [] style = "protect" ->
           [category |-> "PROTECT THE CARRY",
            win_condition |-> "PEEL FOR ADC. WIN FRONT-TO-BACK TEAMFIGHTS.",
            break_point |-> "VULNERABLE IF CARRY IS DIVED OR PICKED EARLY."]
      [] style = "engage" ->
           [category |-> "HEAVY ENGAGE",
            win_condition |-> "FORCE 5V5. CHAIN CC ON PRIORITY TARGETS.",
            break_point |-> "USELESS IF THEY MISS INITIAL ENGAGE OR GET POKED."]
      [] style = "scaling" ->
           [category |-> "SCALING",
            win_condition |-> "STALL FOR ITEMS. OUT-STAT IN LATE GAME CLUTCHES.",
            break_point |-> "EXTREMELY WEAK TO EARLY DIVES AND SOUL PRESSURE."]
      [] OTHER ->
           [category |-> "STANDARD",
            win_condition |-> "ADAPT TO FLOW. PLAY FOR STANDARD OBJECTIVES.",
            break_point |-> "LACKS SPECIALIZED STRENGTH AGAINST FOCUSED COMPS."]

classify_team_composition(comp) == Archetype(PrimaryStyle(comp))

CompositionEntry(comp, count) ==
    LET classification == classify_team_composition(comp)
    IN  [composition   |-> comp,
         count         |-> count,
         category      |-> classification.category,
         win_condition |-> classification.win_condition,
         break_point   |-> classification.break_point]

\* every list analyze_compositions can return for the table
CommonCompositions(d) ==
    LET counts == CompositionCounts(d)
    IN  { [i \in DOMAIN top |-> CompositionEntry(top[i], counts[top[i]])] :
            top \in { HeadOf(o, TopN) : o \in Rankings(counts, DOMAIN counts) } }

(***************************************************************************)
(* generate_how_to_win_insights                                            *)
(***************************************************************************)
DragonThreshold == Frac(2, 5)       \* 0.4
LateDropMargin  == Frac(3, 20)      \* 0.15
TowerThreshold  == Frac(1, 2)       \* 0.5
ScalingMargin   == Frac(1, 10)      \* 0.1

Insight(rec, template, cited, prio) ==
    [recommendation |-> rec,
     metric |-> [template |-> template, cited |-> cited],
     priority |-> prio]

ForceDragon(dragon_rate) ==
    Insight("FORCE DRAGON FIGHTS. DENY SOUL AT ALL COSTS.",
            "Opponent dragon control is weak ({:.2%} capture rate).",
            <<Pct(dragon_rate)>>, "HIGH")

StallForLate(early_win_rate, late_win_rate) ==
    Insight("STALL FOR LATE. PUNISH THEIR MID-GAME DESPERATION.",
            "Massive late-game drop detected ({:.2%} Early vs {:.2%} Late WR).",
            <<Pct(early_win_rate), Pct(late_win_rate)>>, "HIGH")

PressAdvantage(overall_win_rate) ==
    Insight("PRESS THE ADVANTAGE. DON'T LET THEM BREATHE.",
            "Maintain pressure ({:.2%} overall win rate).",
            <<Pct(overall_win_rate)>>, "HIGH")

CrashWaves(tower_rate) ==
    Insight("CRASH WAVES. PUNISH WEAK ROTATIONS FOR PLATES.",
            "Subpar first tower control ({:.2%} rate).",
            <<Pct(tower_rate)>>, "MEDIUM")

InvadeEarly(early_win_rate, late_win_rate) ==
    Insight("INVADE EARLY. BREAK THEIR SCALING BEFORE IT STARTS.",
            "Scaling threat detected ({:.2%} Late WR vs {:.2%} Early).",
            <<Pct(late_win_rate), Pct(early_win_rate)>>, "MEDIUM")

ControlVision ==
    Insight("CONTROL VISION. PUNISH FACE-CHECKS IN RIVER.",
            "Standard objective pacing detected.", <<>>, "MEDIUM")

BaitBaron ==
    Insight("BAIT BARON. FORCE THEM INTO A BAD FACE-CHECK.",
            "Situational tactical opening.", <<>>, "SITUATIONAL")

\* mutant: the late-drop rule tried before the dragon rule
HighInsightStallFirst(d) ==
    LET dragon_rate    == Mean(Column(d, "first_dragon"))
        early_win_rate == PartitionWinRate(EarlyRows(d))
        late_win_rate  == PartitionWinRate(LateRows(d))
    IN  IF Gt(early_win_rate, Add(late_win_rate, LateDropMargin))
        THEN StallForLate(early_win_rate, late_win_rate)
        ELSE IF Lt(dragon_rate, DragonThreshold)
        THEN ForceDragon(dragon_rate)
        ELSE PressAdvantage(Mean(Column(d, "win")))

\* mutant: a game of exactly 1800 seconds counted as an early game
HighInsightOtherSplit(d) ==
    LET dragon_rate    == Mean(Column(d, "first_dragon"))
        early_win_rate == PartitionWinRate(
                             SelectSeq(d, LAMBDA row : row.game_duration <= EarlyLateSplit))
        late_win_rate  == PartitionWinRate(
                             SelectSeq(d, LAMBDA row : row.game_duration > EarlyLateSplit))
    IN  IF Lt(dragon_rate, DragonThreshold)
        THEN ForceDragon(dragon_rate)
        ELSE IF Gt(early_win_rate, Add(late_win_rate, LateDropMargin))
        THEN StallForLate(early_win_rate, late_win_rate)
        ELSE PressAdvantage(Mean(Column(d, "win")))

HighInsight(d) ==
    LET dragon_rate    == Mean(Column(d, "first_dragon"))
        early_win_rate == PartitionWinRate(EarlyRows(d))
        late_win_rate  == PartitionWinRate(LateRows(d))
    IN  IF Lt(dragon_rate, DragonThreshold)
        THEN ForceDragon(dragon_rate)
        ELSE IF Gt(early_win_rate, Add(late_win_rate, LateDropMargin))
        THEN StallForLate(early_win_rate, late_win_rate)
        ELSE PressAdvantage(Mean(Column(d, "win")))

\* mutant: a first-tower rate of exactly 0.5 counted as subpar
MediumInsightInclusive(d) ==
    LET tower_rate     == Mean(Column(d, "first_tower"))
        early_win_rate == PartitionWinRate(EarlyRows(d))
        late_win_rate  == PartitionWinRate(LateRows(d))
    IN  IF Le(tower_rate, TowerThreshold)
        THEN CrashWaves(tower_rate)
        ELSE IF Gt(late_win_rate, Add(early_win_rate, ScalingMargin))
        THEN InvadeEarly(early_win_rate, late_win_rate)
        ELSE ControlVision

\* mutant: the scaling rule with the two win rates exchanged
MediumInsightExchanged(d) ==
    LET tower_rate     == Mean(Column(d, "first_tower"))
        early_win_rate == PartitionWinRate(EarlyRows(d))
        late_win_rate  == PartitionWinRate(LateRows(d))
    IN  IF Lt(tower_rate, TowerThreshold)
        THEN CrashWaves(tower_rate)
        ELSE IF Gt(early_win_rate, Add(late_win_rate, ScalingMargin))
        THEN InvadeEarly(early_win_rate, late_win_rate)
        ELSE ControlVision

MediumInsight(d) ==
    LET tower_rate     == Mean(Column(d, "first_tower"))
        early_win_rate == PartitionWinRate(EarlyRows(d))
        late_win_rate  == PartitionWinRate(LateRows(d))
    IN  IF Lt(tower_rate, TowerThreshold)
        THEN CrashWaves(tower_rate)
        ELSE IF Gt(late_win_rate, Add(early_win_rate, ScalingMargin))
        THEN InvadeEarly(early_win_rate, late_win_rate)
        ELSE ControlVision

\* whether generate_how_to_win_insights reads a column the table lacks:
\* first_dragon and game_duration first, win for a partition that has rows
\* and again in the last rule of the HIGH cascade, first_tower after that
HowToWinInsightsRaises(d, cols) ==
    \/ "first_dragon" \notin cols
    \/ "game_duration" \notin cols
    \/ /\ "win" \notin cols
       /\ \/ EarlyRows(d) # <<>>
          \/ LateRows(d) # <<>>
          \/ LET dragon_rate    == Mean(Column(d, "first_dragon"))
                 early_win_rate == PartitionWinRate(EarlyRows(d))
                 late_win_rate  == PartitionWinRate(LateRows(d))
             IN  /\ ~Lt(dragon_rate, DragonThreshold)
                 /\ ~Gt(early_win_rate, Add(late_win_rate, LateDropMargin))
    \/ "first_tower" \notin cols

\* mutant: an empty table answered with no insight at all
HowToWinInsightsEmptyGuard(d) ==
    IF d = <<>> THEN <<>> ELSE <<HighInsight(d), MediumInsight(d), BaitBaron>>

HowToWinInsights(d) == <<HighInsight(d), MediumInsight(d), BaitBaron>>

\* mutant: the empty composition list answered only when both player
\* columns are absent
CompositionsSkippedBoth(cols) == "role" \notin cols /\ "champion" \notin cols

\* whether analyze_compositions answers the empty list without reading
\* the table
CompositionsSkipped(cols) == "champion" \notin cols

(***************************************************************************)
(* Actions                                                                 *)
(***************************************************************************)
Idle == \A a \in Analyzers : status[a] = "idle"

\* the table is read row by row before any analyzer runs (main.py: the
\* loader returns the whole table, then the analyzers are called)
LoadRow(r, max) ==
    /\ Idle
    /\ Len(df) < max
    /\ df' = Append(df, r)
    /\ UNCHANGED <<columns, status, roles_arg, role_tendencies,
                   team_tendencies, compositions, insights>>

AnalyzeTeamTendencies ==
    /\ status["team"] = "idle"
    /\ IF ~TeamTendenciesRaises(df, columns)
       THEN /\ team_tendencies' = TeamTendencies(df)
            /\ status' = [status EXCEPT !["team"] = "returned"]
       ELSE /\ team_tendencies' = team_tendencies
            /\ status' = [status EXCEPT !["team"] = "KeyError"]
    /\ UNCHANGED <<df, columns, roles_arg, role_tendencies, compositions,
                   insights>>

AnalyzePlayerTendencies(ra) ==
    /\ status["player"] = "idle"
    /\ roles_arg' = ra
    /\ LET results == PlayerTendencies(df, columns, ra)
       IN  IF "win" \in columns \/ results = { <<>> }
           THEN /\ role_tendencies' \in results
                /\ status' = [status EXCEPT !["player"] = "returned"]
           ELSE /\ role_tendencies' = role_tendencies
                /\ status' = [status EXCEPT !["player"] = "KeyError"]
    /\ UNCHANGED <<df, columns, team_tendencies, compositions, insights>>

AnalyzeCompositions ==
    /\ status["comps"] = "idle"
    /\ IF CompositionsSkipped(columns)
       THEN /\ compositions' = <<>>
            /\ status' = [status EXCEPT !["comps"] = "returned"]
       ELSE IF {"match_id", "team_id", "champion"} \subseteq columns
       THEN /\ compositions' \in CommonCompositions(df)
            /\ status' = [status EXCEPT !["comps"] = "returned"]
       ELSE /\ compositions' = compositions
            /\ status' = [status EXCEPT !["comps"] = "KeyError"]
    /\ UNCHANGED <<df, columns, roles_arg, role_tendencies, team_tendencies,
                   insights>>

GenerateHowToWinInsights ==
    /\ status["insights"] = "idle"
    /\ IF ~HowToWinInsightsRaises(df, columns)
       THEN /\ insights' = HowToWinInsights(df)
            /\ status' = [status EXCEPT !["insights"] = "returned"]
       ELSE /\ insights' = insights
            /\ status' = [status EXCEPT !["insights"] = "KeyError"]
    /\ UNCHANGED <<df, columns, roles_arg, role_tendencies, team_tendencies,
                   compositions>>

(***************************************************************************)
(* Specifications                                                          *)
(***************************************************************************)
Init ==
    /\ df = <<>>
    /\ columns = AllColumns
    /\ status = [a \in Analyzers |-> "idle"]
    /\ roles_arg = NoRoles
    /\ role_tendencies = <<>>
    /\ team_tendencies = NoTeamTendencies
    /\ compositions = <<>>
    /\ insights = <<>>

\* the team-level analyzers over tables of up to MaxRows rows
Next ==
    \/ \E r \in TeamRows : LoadRow(r, MaxRows)
    \/ AnalyzeTeamTendencies
    \/ GenerateHowToWinInsights

Spec == Init /\ [][Next]_vars

\* a table of up to MaxColumnRows rows that lacks up to MaxDropped columns
InitColumns ==
    /\ df = <<>>
    /\ columns \in ColumnSets
    /\ status = [a \in Analyzers |-> "idle"]
    /\ roles_arg = NoRoles
    /\ role_tendencies = <<>>
    /\ team_tendencies = NoTeamTendencies
    /\ compositions = <<>>
    /\ insights = <<>>

\* the four analyzers, in any order, as main.py calls them
NextColumns ==
    \/ \E r \in ColumnRows : LoadRow(r, MaxColumnRows)
    \/ AnalyzePlayerTendencies(NoRoles)
    \/ AnalyzeTeamTendencies
    \/ AnalyzeCompositions
    \/ GenerateHowToWinInsights

SpecColumns == InitColumns /\ [][NextColumns]_vars

\* the team analyzer over tables of up to MaxStatRows rows of two team-games
NextStats ==
    \/ \E r \in StatRows(df) : LoadRow(r, MaxStatRows)
    \/ AnalyzeTeamTendencies

SpecStats == Init /\ [][NextStats]_vars

\* the insight synthesizer over tables of up to MaxDragonRows rows
NextDragon ==
    \/ \E r \in DragonRows : LoadRow(r, MaxDragonRows)
    \/ GenerateHowToWinInsights

SpecDragon == Init /\ [][NextDragon]_vars

\* the player analyzer, with and without a roles filter, over tables of up
\* to MaxPlayerRows rows
NextPlayer ==
    \/ \E r \in PlayerRows : LoadRow(r, MaxPlayerRows)
    \/ \E ra \in {NoRoles} \cup RoleLists : AnalyzePlayerTendencies(ra)

SpecPlayer == Init /\ [][NextPlayer]_vars

\* the player analyzer over up to MaxGames games of one champion in one role
NextGames ==
    \/ \E r \in GameRows : LoadRow(r, MaxGames)
    \/ AnalyzePlayerTendencies(NoRoles)

SpecGames == Init /\ [][NextGames]_vars

\* the composition analyzer over tables of up to MaxCompRows rows spread
\* over three team-games
NextComp ==
    \/ \E r \in CompRows : LoadRow(r, MaxCompRows)
    \/ AnalyzeCompositions

SpecComp == Init /\ [][NextComp]_vars

\* the composition analyzer over one team-game of up to MaxPicks champions
NextPicks ==
    \/ \E r \in PickRows : LoadRow(r, MaxPicks)
    \/ AnalyzeCompositions

SpecPicks == Init /\ [][NextPicks]_vars

\* the composition analyzer over up to MaxTeamGames one-row team-games
NextTeamGames ==
    \/ \E r \in TeamGameRows(df) : LoadRow(r, MaxTeamGames)
    \/ AnalyzeCompositions

SpecTeamGames == Init /\ [][NextTeamGames]_vars

(***************************************************************************)
(* Quantities the claims speak of, counted directly over the rows          *)
(***************************************************************************)
RowsWhere(P(_)) == { i \in DOMAIN df : P(df[i]) }
Count(P(_)) == Cardinality(RowsWhere(P))

\* a column's rate over all rows (NaN for the empty table)
RateOf(col) == Frac(Count(LAMBDA r : r[col] = 1), Len(df))

\* win rate of the rows before / from the split, 0.0 when there are none
EarlyWinRate ==
    IF Count(LAMBDA r : r.game_duration < 1800) = 0 THEN Frac(0, 1)
    ELSE Frac(Count(LAMBDA r : r.game_duration < 1800 /\ r.win = 1),
              Count(LAMBDA r : r.game_duration < 1800))
LateWinRate ==
    IF Count(LAMBDA r : r.game_duration >= 1800) = 0 THEN Frac(0, 1)
    ELSE Frac(Count(LAMBDA r : r.game_duration >= 1800 /\ r.win = 1),
              Count(LAMBDA r : r.game_duration >= 1800))

\* a - b > m for rates a, b and a margin m
GapExceeds(a, b, m) ==
    (a.num * b.den - b.num * a.den) * m.den > m.num * a.den * b.den

InsightsReturned == status["insights"] = "returned"
TeamReturned == status["team"] = "returned"

(***************************************************************************)
(* C1: whatever the table (the empty one, one with an empty duration       *)
(* partition), the synthesizer returns exactly three insights, of          *)
(* priorities HIGH, MEDIUM, SITUATIONAL in this order, the third being the *)
(* fixed bait-objective insight.                                           *)
(***************************************************************************)
C1_ThreeInsights ==
    InsightsReturned =>
        /\ Len(insights) = 3
        /\ insights[1].priority = "HIGH"
        /\ insights[2].priority = "MEDIUM"
        /\ insights[3].priority = "SITUATIONAL"
        /\ insights[3].recommendation =
               "BAIT BARON. FORCE THEM INTO A BAD FACE-CHECK."
        /\ insights[3].metric.template = "Situational tactical opening."
        /\ insights[3].metric.cited = <<>>

\* the synthesizer has answered for the empty table
C1_Witness == InsightsReturned /\ df = <<>>

C7_EarlyLate ==
    TeamReturned =>
        /\ SameRate(team_tendencies.early_game_win_rate, EarlyWinRate)
        /\ SameRate(team_tendencies.late_game_win_rate, LateWinRate)
        /\ team_tendencies.win_tendency = "early" <=>
               GapExceeds(EarlyWinRate, LateWinRate, Frac(0, 1))
        /\ team_tendencies.win_tendency \in {"early", "late"}

\* all rows early with a mean win of 0.5: early 0.5, late 0.0, "early"
C7_Witness ==
    /\ TeamReturned
    /\ df # <<>>
    /\ \A i \in DOMAIN df : df[i].game_duration < 1800
    /\ SameRate(team_tendencies.early_game_win_rate, Frac(1, 2))
    /\ SameRate(team_tendencies.late_game_win_rate, Frac(0, 1))
    /\ team_tendencies.win_tendency = "early"

PlayerReturned == status["player"] = "returned"

\* rows of a role, of a champion in a role, and the wins among the latter
Games(role, champ) ==
    Count(LAMBDA r : r.role = role /\ r.champion = champ)
Wins(role, champ) ==
    Count(LAMBDA r : r.role = role /\ r.champion = champ /\ r.win = 1)
RolesInData == { df[i].role : i \in DOMAIN df }
ChampionsInData == { df[i].champion : i \in DOMAIN df }
HasQualifying(role) == \E c \in ChampionsInData : Games(role, c) >= 2

(***************************************************************************)
(* C4: the player analyzer reports a role if and only if some champion has *)
(* two or more rows in it: a reported champion never has fewer than two    *)
(* games, a role whose champions all have fewer than two is absent, every  *)
(* entry has count >= 2.  ("If": for the roles the call analyses, which    *)
(* are all roles of the table without a filter and the listed ones with a  *)
(* non-empty filter.)                                                      *)
(***************************************************************************)
C4_MinGamesFloor ==
    PlayerReturned =>
        /\ \A r \in DOMAIN role_tendencies :
              /\ HasQualifying(r)
              /\ role_tendencies[r].count >= 2
              /\ Games(r, role_tendencies[r].most_played_champion) >= 2
        /\ \A r \in RolesInData :
              (HasQualifying(r)
                 /\ (~roles_arg.given \/ r \in roles_arg.roles))
              => r \in DOMAIN role_tendencies

\* one role is reported while another, whose champions have one game each,
\* is absent
C4_Witness ==
    /\ PlayerReturned
    /\ ~roles_arg.given
    /\ DOMAIN role_tendencies = {"TOP"}
    /\ Games("MID", "Garen") = 1
    /\ Games("MID", "Darius") = 1

C6_ActionText ==
    PlayerReturned =>
        \A r \in DOMAIN role_tendencies :
            LET e == role_tendencies[r]
                g == Games(r, e.most_played_champion)
                w == Wins(r, e.most_played_champion)
            IN  e.action =
                  IF 5 * w >= 3 * g THEN "DENY COMFORT PICK"
                  ELSE IF 5 * w <= 2 * g THEN "FORCE LOSING MATCHUP"
                  ELSE "IGNORE AND PLAY CROSS-MAP"

\* five games with two wins: a win rate of exactly 0.40 forces the matchup
C6_Witness ==
    /\ PlayerReturned
    /\ "TOP" \in DOMAIN role_tendencies
    /\ Games("TOP", "Garen") = 5
    /\ Wins("TOP", "Garen") = 2
    /\ role_tendencies["TOP"].action = "FORCE LOSING MATCHUP"

CompsReturned == status["comps"] = "returned"

\* the team-games of the table, and the champions of one as a multiset
TeamGames == { <<df[i].match_id, df[i].team_id>> : i \in DOMAIN df }
PicksOf(game) ==
    [c \in { df[i].champion : i \in { j \in DOMAIN df :
                 <<df[j].match_id, df[j].team_id>> = game } } |->
       Cardinality({ j \in DOMAIN df :
                       /\ <<df[j].match_id, df[j].team_id>> = game
                       /\ df[j].champion = c })]
\* a reported composition as a multiset
AsPicks(comp) ==
    [c \in { comp[i] : i \in DOMAIN comp } |->
       Cardinality({ i \in DOMAIN comp : comp[i] = c })]
\* the team-games that fielded exactly these champions
Occurrences(picks) == Cardinality({ g \in TeamGames : PicksOf(g) = picks })
ReportedPicks == { AsPicks(compositions[i].composition) : i \in DOMAIN compositions }

(***************************************************************************)
(* C8: the composition list has at most 5 entries, its counts never        *)
(* increase from one entry to the next, and no composition left out of it  *)
(* occurs strictly more often than one that is in it.                      *)
(***************************************************************************)
C8_TopFive ==
    CompsReturned =>
        /\ Len(compositions) <= 5
        /\ \A i, j \in DOMAIN compositions :
              i < j => compositions[i].count >= compositions[j].count
        /\ \A i \in DOMAIN compositions :
              compositions[i].count =
                 Occurrences(AsPicks(compositions[i].composition))
        /\ \A g \in TeamGames :
              PicksOf(g) \notin ReportedPicks =>
                 \A i \in DOMAIN compositions :
                    Occurrences(PicksOf(g)) <= compositions[i].count

\* more than five compositions of unequal counts: five are listed, one that
\* occurred twice first, and a composition is left out
C8_Witness ==
    /\ CompsReturned
    /\ Len(compositions) = 5
    /\ compositions[1].count = 2
    /\ compositions[5].count = 1
    /\ \E g \in TeamGames : PicksOf(g) \notin ReportedPicks

(***************************************************************************)
(* C9: a composition is the champions of one (match_id, team_id) group in  *)
(* lexicographic order, so team-games fielding the same champions in       *)
(* another row order are one composition, and no permutation of the rows   *)
(* changes any composition's count.                                        *)
(***************************************************************************)
\* the table with rows i and j exchanged; every permutation of the rows is
\* a chain of such exchanges, and every table of the bound is checked
Exchanged(i, j) ==
    [k \in 1..Len(df) |-> IF k = i THEN df[j] ELSE IF k = j THEN df[i] ELSE df[k]]

C9_SortedComposition ==
    CompsReturned =>
        /\ \A i \in DOMAIN compositions :
              LET comp == compositions[i].composition
              IN  /\ \A a, b \in DOMAIN comp :
                        a < b => Rank(comp[a]) <= Rank(comp[b])
                  /\ \E g \in TeamGames : PicksOf(g) = AsPicks(comp)
                  /\ compositions[i].count = Occurrences(AsPicks(comp))
        /\ \A i, j \in DOMAIN compositions :
              i # j => AsPicks(compositions[i].composition)
                         # AsPicks(compositions[j].composition)
        /\ \A i, j \in DOMAIN df :
              i < j => CompositionCounts(Exchanged(i, j)) = CompositionCounts(df)

\* two team-games field Garen and Darius in opposite row orders and are
\* reported as the one composition [Darius, Garen], counted twice
C9_Witness ==
    /\ CompsReturned
    /\ Len(df) = 4
    /\ df[1].champion = "Garen" /\ df[2].champion = "Darius"
    /\ df[3].champion = "Darius" /\ df[4].champion = "Garen"
    /\ <<df[1].match_id, df[1].team_id>> = <<df[2].match_id, df[2].team_id>>
    /\ <<df[3].match_id, df[3].team_id>> = <<df[4].match_id, df[4].team_id>>
    /\ <<df[1].match_id, df[1].team_id>> # <<df[3].match_id, df[3].team_id>>
    /\ Len(compositions) = 1
    /\ compositions[1].composition = <<"Darius", "Garen">>
    /\ compositions[1].count = 2

(***************************************************************************)
(* C10: a reported composition is classified by the tags of its champions  *)
(* (an untagged champion counts for no archetype): STANDARD if the largest *)
(* archetype count is below 2, otherwise the archetype of the largest      *)
(* count, the first of skirmish, protect, engage, scaling among equals;    *)
(* the two texts are the fixed pair of the chosen category.                *)
(***************************************************************************)
Tagged(comp, tag) ==
    Cardinality({ i \in DOMAIN comp : ChampionTag(comp[i]) = tag })

Largest(comp) ==
    CHOOSE n \in { Tagged(comp, t) : t \in {"skirmish", "protect", "engage", "scaling"} } :
        \A t \in {"skirmish", "protect", "engage", "scaling"} : Tagged(comp, t) <= n

ExpectedCategory(comp) ==
    IF Largest(comp) < 2 THEN "STANDARD"
    ELSE IF Tagged(comp, "skirmish") = Largest(comp) THEN "EARLY SKIRMISH"
    ELSE IF Tagged(comp, "protect") = Largest(comp) THEN "PROTECT THE CARRY"
    ELSE IF Tagged(comp, "engage") = Largest(comp) THEN "HEAVY ENGAGE"
    ELSE "SCALING"

ExpectedTexts(category) ==
    CASE category = "EARLY SKIRMISH" ->
           <<"CRUSH LANES EARLY. INVADE AND SNOWBALL TEMPO.",
             "FALLS OFF IF GAME STALLS PAST 25 MINS.">>
      [] category = "PROTECT THE CARRY" ->
           <<"PEEL FOR ADC. WIN FRONT-TO-BACK TEAMFIGHTS.",
             "VULNERABLE IF CARRY IS DIVED OR PICKED EARLY.">>
      [] category = "HEAVY ENGAGE" ->
           <<"FORCE 5V5. CHAIN CC ON PRIORITY TARGETS.",
             "USELESS IF THEY MISS INITIAL ENGAGE OR GET POKED.">>
      [] category = "SCALING" ->
           <<"STALL FOR ITEMS. OUT-STAT IN LATE GAME CLUTCHES.",
             "EXTREMELY WEAK TO EARLY DIVES AND SOUL PRESSURE.">>
      [] category = "STANDARD" ->
           <<"ADAPT TO FLOW. PLAY FOR STANDARD OBJECTIVES.",
             "LACKS SPECIALIZED STRENGTH AGAINST FOCUSED COMPS.">>

C10_Classification ==
    CompsReturned =>
        \A i \in DOMAIN compositions :
            LET e == compositions[i]
            IN  /\ e.category = ExpectedCategory(e.composition)
                /\ <<e.win_condition, e.break_point>> = ExpectedTexts(e.category)

\* two protect and two scaling champions: the tie goes to PROTECT THE CARRY
C10_Witness ==
    /\ CompsReturned
    /\ Len(compositions) = 1
    /\ Tagged(compositions[1].composition, "protect") = 2
    /\ Tagged(compositions[1].composition, "scaling") = 2
    /\ compositions[1].category = "PROTECT THE CARRY"

(***************************************************************************)
(* Absent columns (SpecColumns)                                            *)
(***************************************************************************)
PlayerColumnAbsent == ~({"role", "champion"} \subseteq columns)

\* C11: a table without its champion column makes analyze_player_tendencies
\* return the empty mapping and analyze_compositions the empty list, and a
\* table without its role column makes analyze_player_tendencies return
\* the empty mapping; none of these calls raises, and as long as the four
\* team-level columns are there analyze_team_tendencies and
\* generate_how_to_win_insights still return their results.
C11_MissingPlayerColumns ==
    /\ PlayerColumnAbsent =>
          /\ status["player"] # "KeyError"
          /\ PlayerReturned => role_tendencies = <<>>
    /\ "champion" \notin columns =>
          /\ status["comps"] # "KeyError"
          /\ CompsReturned => compositions = <<>>
    /\ (PlayerColumnAbsent /\ TeamRequired \subseteq columns) =>
          /\ status["team"] # "KeyError"
          /\ status["insights"] # "KeyError"
          /\ TeamReturned => team_tendencies = TeamTendencies(df)
          /\ InsightsReturned => Len(insights) = 3

\* the four analyzers have all returned on a table without its champion
\* column that plays one champion twice in one role
C11_Witness ==
    /\ "champion" \notin columns
    /\ Len(df) = 2
    /\ PlayerReturned /\ role_tendencies = <<>>
    /\ CompsReturned /\ compositions = <<>>
    /\ TeamReturned /\ team_tendencies.win_tendency # ""
    /\ InsightsReturned /\ Len(insights) = 3

\* C12: when one of first_dragon, first_tower, game_duration and win is
\* absent, neither analyze_team_tendencies nor
\* generate_how_to_win_insights returns: the call fails and leaves no
\* metrics record and no insight list behind.
C12_RequiredColumns ==
    ~(TeamRequired \subseteq columns) =>
        /\ ~TeamReturned
        /\ ~InsightsReturned
        /\ team_tendencies = NoTeamTendencies
        /\ insights = <<>>

(***************************************************************************)
(* The most played champion (SpecPlayer)                                   *)
(***************************************************************************)
\* the first row of the table that plays the champion in the role
FirstSeen(role, champ) ==
    CHOOSE i \in DOMAIN df :
        /\ df[i].role = role /\ df[i].champion = champ
        /\ \A j \in 1..(i - 1) : ~(df[j].role = role /\ df[j].champion = champ)

\* the champions of the role that have as many rows as the reported one
TiedWith(role, champ) ==
    { o \in ChampionsInData \ {champ} : Games(role, o) = Games(role, champ) }

\* the reported champion has two or more rows and no champion of the role
\* has more; count and win_rate are its rows and its wins over its rows
MostPlayedReported(role) ==
    LET champ == role_tendencies[role].most_played_champion
    IN  /\ Games(role, champ) >= 2
        /\ \A o \in ChampionsInData : Games(role, o) <= Games(role, champ)
        /\ role_tendencies[role].count = Games(role, champ)
        /\ SameRate(role_tendencies[role].win_rate,
                    Frac(Wins(role, champ), Games(role, champ)))

KeyBefore(a, b) ==
    \/ a[1] < b[1]
    \/ a[1] = b[1] /\ a[2] = "BLUE_TEAM" /\ b[2] = "RED_TEAM"

\* the composition was encountered before the other one: its first group
\* precedes every group of the other
EncounteredBefore(picksA, picksB) ==
    \E g \in TeamGames :
        /\ PicksOf(g) = picksA
        /\ \A h \in TeamGames : PicksOf(h) = picksB => KeyBefore(g, h)

HighIs(text) == insights[1].recommendation = text
MediumIs(text) == insights[2].recommendation = text

\* C16: the rates the insights are chosen by and cite are the rates
\* analyze_team_tendencies reports for the same table: the HIGH insight is
\* FORCE DRAGON FIGHTS exactly when the reported first_dragon_rate is
\* below 0.40, the MEDIUM insight is CRASH WAVES exactly when the reported
\* first_tower_rate is below 0.50, and the early and late win rates cited
\* are the reported early_game_win_rate and late_game_win_rate.
C16_SameRates ==
    (InsightsReturned /\ TeamReturned) =>
        /\ HighIs("FORCE DRAGON FIGHTS. DENY SOUL AT ALL COSTS.")
              <=> Lt(team_tendencies.first_dragon_rate, Frac(2, 5))
        /\ HighIs("FORCE DRAGON FIGHTS. DENY SOUL AT ALL COSTS.") =>
              insights[1].metric.cited =
                  <<Pct(team_tendencies.first_dragon_rate)>>
        /\ HighIs("STALL FOR LATE. PUNISH THEIR MID-GAME DESPERATION.") =>
              insights[1].metric.cited =
                  <<Pct(team_tendencies.early_game_win_rate),
                    Pct(team_tendencies.late_game_win_rate)>>
        /\ MediumIs("CRASH WAVES. PUNISH WEAK ROTATIONS FOR PLATES.")
              <=> Lt(team_tendencies.first_tower_rate, Frac(1, 2))
        /\ MediumIs("CRASH WAVES. PUNISH WEAK ROTATIONS FOR PLATES.") =>
              insights[2].metric.cited =
                  <<Pct(team_tendencies.first_tower_rate)>>
        /\ MediumIs("INVADE EARLY. BREAK THEIR SCALING BEFORE IT STARTS.") =>
              insights[2].metric.cited =
                  <<Pct(team_tendencies.late_game_win_rate),
                    Pct(team_tendencies.early_game_win_rate)>>

\* both analyzers have answered for a table whose dragon rate is below
\* 0.40 and whose late win rate is more than 0.10 above the early one
C16_Witness ==
    /\ InsightsReturned /\ TeamReturned
    /\ Lt(team_tendencies.first_dragon_rate, Frac(2, 5))
    /\ HighIs("FORCE DRAGON FIGHTS. DENY SOUL AT ALL COSTS.")
    /\ MediumIs("INVADE EARLY. BREAK THEIR SCALING BEFORE IT STARTS.")

\* C19: STALL FOR LATE and INVADE EARLY are never both among the insights
\* of one table; STALL FOR LATE is given only for a table whose
\* win_tendency is "early", INVADE EARLY only for one whose win_tendency
\* is "late".
C19_StallInvadeExclusive ==
    InsightsReturned =>
        /\ ~(/\ HighIs("STALL FOR LATE. PUNISH THEIR MID-GAME DESPERATION.")
             /\ MediumIs("INVADE EARLY. BREAK THEIR SCALING BEFORE IT STARTS."))
        /\ TeamReturned =>
              /\ HighIs("STALL FOR LATE. PUNISH THEIR MID-GAME DESPERATION.")
                    => team_tendencies.win_tendency = "early"
              /\ MediumIs("INVADE EARLY. BREAK THEIR SCALING BEFORE IT STARTS.")
                    => team_tendencies.win_tendency = "late"

\* STALL FOR LATE is given for a table the team analyzer calls "early"
C19_Witness ==
    /\ InsightsReturned /\ TeamReturned
    /\ HighIs("STALL FOR LATE. PUNISH THEIR MID-GAME DESPERATION.")
    /\ ~MediumIs("INVADE EARLY. BREAK THEIR SCALING BEFORE IT STARTS.")
    /\ team_tendencies.win_tendency = "early"

C20_RolesFilter ==
    (PlayerReturned /\ roles_arg.given) =>
        DOMAIN role_tendencies \subseteq (roles_arg.roles \cap RolesInData)

(***************************************************************************)
(* Row-level against team-game-level rates (SpecStats)                     *)
(***************************************************************************)
GameOf(i) == <<df[i].match_id, df[i].team_id>>
RowsOf(game) == { i \in DOMAIN df : GameOf(i) = game }

EqualGroupSizes ==
    \A g, h \in TeamGames : Cardinality(RowsOf(g)) = Cardinality(RowsOf(h))
ConstantWithinGroups(col) ==
    \A i, j \in DOMAIN df : GameOf(i) = GameOf(j) => df[i][col] = df[j][col]

\* the fraction of the given team-games that have the flag set
GameRate(games, col) ==
    Frac(Cardinality({ g \in games : \E i \in RowsOf(g) : df[i][col] = 1 }),
         Cardinality(games))

\* the team-games of a partition: those with a row in it
EarlyGames == { g \in TeamGames : \E i \in RowsOf(g) : IsEarly(df[i]) }
LateGames == { g \in TeamGames : \E i \in RowsOf(g) : IsLate(df[i]) }

\* the reported rates are the team-game-level fractions
RatesAreGameRates ==
    /\ SameRate(team_tendencies.first_dragon_rate,
                GameRate(TeamGames, "first_dragon"))
    /\ SameRate(team_tendencies.first_tower_rate,
                GameRate(TeamGames, "first_tower"))
    /\ EarlyGames # {} =>
          SameRate(team_tendencies.early_game_win_rate,
                   GameRate(EarlyGames, "win"))
    /\ LateGames # {} =>
          SameRate(team_tendencies.late_game_win_rate,
                   GameRate(LateGames, "win"))

\* C17 as written: if every (match_id, team_id) group has the same number
\* of rows and first_dragon, first_tower and win are constant within each
\* group, the reported first_dragon_rate and first_tower_rate are the
\* fractions of team-games with the flag set and the win rate of each
\* partition is the fraction of won team-games in it.
C17_RowRatesAreGameRates ==
    (/\ TeamReturned /\ df # <<>>
     /\ EqualGroupSizes
     /\ ConstantWithinGroups("first_dragon")
     /\ ConstantWithinGroups("first_tower")
     /\ ConstantWithinGroups("win"))
    => RatesAreGameRates

\* C17 amended: the same, for tables where game_duration is constant
\* within each group as well, so that a team-game lies in one partition.
C17_RowRatesOfWholeGames ==
    (/\ TeamReturned /\ df # <<>>
     /\ EqualGroupSizes
     /\ ConstantWithinGroups("first_dragon")
     /\ ConstantWithinGroups("first_tower")
     /\ ConstantWithinGroups("win")
     /\ ConstantWithinGroups("game_duration"))
    => RatesAreGameRates

\* two team-games of two rows each, one early and won, the other late and
\* lost, with different objective flags
C17_Witness ==
    /\ TeamReturned
    /\ Cardinality(TeamGames) = 2
    /\ \A g \in TeamGames : Cardinality(RowsOf(g)) = 2
    /\ EqualGroupSizes
    /\ ConstantWithinGroups("win")
    /\ ConstantWithinGroups("game_duration")
    /\ Cardinality(EarlyGames) = 1 /\ Cardinality(LateGames) = 1
    /\ SameRate(team_tendencies.first_dragon_rate, Frac(1, 2))
    /\ SameRate(team_tendencies.early_game_win_rate, Frac(1, 1))
    /\ SameRate(team_tendencies.late_game_win_rate, Frac(0, 1))
====
